---- MODULE Spec2Model ----
(***************************************************************************)
(* Model of src/src/App.jsx: the page-time tracker hook (usePageTimer),    *)
(* the mount effect of App with its backend probe (checkBackend), and the  *)
(* custom-event sender (sendEvent).                                        *)
(*                                                                         *)
(* Time is Date.now() in milliseconds, counted from the first render.      *)
(* timeSpent is kept in milliseconds: the code's (now - startTime) / 1000  *)
(* is an IEEE division of an integer by 1000, which is monotonic and maps  *)
(* 500 to exactly 0.5, so "timeSpent > 0.5" is "now - startTime > 500".    *)
(***************************************************************************)
EXTENDS Integers, Sequences, FiniteSets, TLC

VARIABLES
    now,            \* Date.now(), ms since the first render
    pc,             \* "render": effects pending; "appEffect": the hook's effect ran; "run"
    location,       \* useLocation().pathname == window.location.pathname
    startTime,      \* usePageTimer's state, line 23
    currentPage,    \* sessionStorage["currentPage"], NoPage when absent
    tracks,         \* every POST /track issued, in issue order, with the time of its
                    \* issue ("at", history) and its outcome
    events,         \* every POST /events issued, in issue order, with its outcome
    type,           \* App's state, line 59 (a sequence of characters)
    data,           \* App's state, line 60
    backendStatus,  \* App's state, line 61
    probe,          \* the GET of checkBackend: "none", "pending", then its outcome
                    \* ("ok", "http" or "neterr")
    alerts,         \* the alert() dialogs shown, in order
    console,        \* the console.error calls, counted by the fetch they report
    lastNav,        \* history: the latest run of the hook's effect (the page it read,
                    \* its path, its time, the dwell time it computed, the
                    \* number of POST /track issued before it, and whether it
                    \* was the run at mount)
    sendCalls,      \* history: calls of sendEvent
    ticks           \* history: clock advances

vars == <<now, pc, location, startTime, currentPage, tracks, events, type,
          data, backendStatus, probe, alerts, console, lastNav, sendCalls, ticks>>

-----------------------------------------------------------------------------
(* Bounds of the model *)

MaxSend == 1
MaxTicks == 2
\* calls of sendEvent where the App component is checked on its own
MaxOverlap == 2

(* Clock advances between two events, in ms: at the threshold, just above it,
   and the dwell times of the spec's scenario. *)
Dwells == {500, 3000, 5000}

-----------------------------------------------------------------------------
(* Program constants *)

Paths == {"/", "/about", "/analytics"}
NoPage == "null"
ExcludedPage == "/analytics"
Threshold == 500

(* What the user types: an empty, a whitespace-only and a valid event type
   (with whitespace around it); empty or some event data. *)
Strings == {<<>>, <<" ", " ">>, <<" ", "a", " ">>}
DataStrings == {<<>>, <<"d">>}

NoNav == [from |-> NoPage, to |-> NoPage, at |-> -1, dwell |-> 0, before |-> 0,
          mount |-> FALSE]

-----------------------------------------------------------------------------
(* String.prototype.trim, on sequences of characters *)

RECURSIVE TrimStart(_)
TrimStart(s) ==
    IF s = <<>> THEN s
    ELSE IF Head(s) = " " THEN TrimStart(Tail(s)) ELSE s

RECURSIVE TrimEnd(_)
TrimEnd(s) ==
    IF s = <<>> THEN s
    ELSE IF s[Len(s)] = " " THEN TrimEnd(SubSeq(s, 1, Len(s) - 1)) ELSE s

TrimIdentity(s) == s

\* line 84: type.trim()
Trim(s) == TrimEnd(TrimStart(s))

-----------------------------------------------------------------------------
(* usePageTimer *)

ShouldEmitAtThreshold(prevPage, timeSpent) ==
    prevPage # NoPage /\ prevPage # ExcludedPage /\ timeSpent >= Threshold

ShouldEmitNoExclusion(prevPage, timeSpent) ==
    prevPage # NoPage /\ timeSpent > Threshold

ShouldEmitSkipsEntering(prevPage, timeSpent) ==
    prevPage # NoPage /\ prevPage # ExcludedPage /\ location' # ExcludedPage
    /\ timeSpent > Threshold

ShouldEmitUnlessFailed(prevPage, timeSpent) ==
    /\ prevPage # NoPage /\ prevPage # ExcludedPage /\ timeSpent > Threshold
    /\ \A i \in 1..Len(tracks) : tracks[i].status # "neterr"

\* line 31: prevPage && prevPage !== "/analytics" && timeSpent > 0.5
ShouldEmit(prevPage, timeSpent) ==
    prevPage # NoPage /\ prevPage # ExcludedPage /\ timeSpent > Threshold

TrackRequestOfEntered(prevPage, newPath, timeSpent) ==
    [page |-> newPath, timeSpent |-> timeSpent, at |-> now, status |-> "pending"]

\* lines 32-36: the body { page: prevPage, timeSpent }
TrackRequest(prevPage, newPath, timeSpent) ==
    [page |-> prevPage, timeSpent |-> timeSpent, at |-> now, status |-> "pending"]

StoredOnlyWhenEmitted(prevPage, newPath, timeSpent) ==
    IF ShouldEmit(prevPage, timeSpent) THEN <<newPath, now>>
    ELSE <<currentPage, startTime>>

StoredKeepsTimerOnSamePath(prevPage, newPath, timeSpent) ==
    IF prevPage = newPath THEN <<newPath, startTime>> ELSE <<newPath, now>>

\* lines 39-40: the values written to sessionStorage and to startTime
Stored(prevPage, newPath, timeSpent) == <<newPath, now>>

IssuedFirst(reqs, r) == <<r>> \o reqs

\* line 32: fetch sends the request when it is called, after those sent before
Issued(reqs, r) == Append(reqs, r)

\* lines 25-41: the effect, run with location.pathname = newPath
onNavigationChange(newPath) ==
    LET prevPage == currentPage
        timeSpent == now - startTime
        stored == Stored(prevPage, newPath, timeSpent)
    IN  /\ location' = newPath
        /\ tracks' = IF ShouldEmit(prevPage, timeSpent)
                     THEN Issued(tracks, TrackRequest(prevPage, newPath, timeSpent))
                     ELSE tracks
        /\ currentPage' = stored[1]
        /\ startTime' = stored[2]
        /\ lastNav' = [from |-> prevPage, to |-> newPath, at |-> now,
                       dwell |-> timeSpent, before |-> Len(tracks),
                       mount |-> (pc = "render")]

-----------------------------------------------------------------------------
(* The state after the first render: no effect has run yet.  sessionStorage
   survives a reload in the same tab, so currentPage may hold any path. *)

Init ==
    /\ now = 0
    /\ pc = "render"
    /\ location \in Paths
    /\ startTime = 0
    /\ currentPage \in Paths \cup {NoPage}
    /\ tracks = <<>>
    /\ events = <<>>
    /\ type = <<>>
    /\ data = <<>>
    /\ backendStatus = "checking"
    /\ probe = "none"
    /\ alerts = <<>>
    /\ console = [track |-> 0, events |-> 0]
    /\ lastNav = NoNav
    /\ sendCalls = 0
    /\ ticks = 0

\* The clock advances between two callbacks (the two mount effects run back
\* to back).
Tick ==
    /\ pc # "appEffect"
    /\ ticks < MaxTicks
    /\ \E d \in Dwells : now' = now + d
    /\ ticks' = ticks + 1
    /\ UNCHANGED <<pc, location, startTime, currentPage, tracks, events, type, data,
                   backendStatus, probe, alerts, console, lastNav, sendCalls>>

\* The hook's effect at mount: a child's effect runs before its parent's.
MountTimerEffect ==
    /\ pc = "render"
    /\ onNavigationChange(location)
    /\ pc' = "appEffect"
    /\ UNCHANGED <<now, events, type, data, backendStatus, probe, alerts, console,
                   sendCalls, ticks>>

\* lines 63-81: App's mount effect
AppMountEffect ==
    /\ pc = "appEffect"
    /\ currentPage' = location
    /\ probe' = "pending"
    /\ pc' = "run"
    /\ UNCHANGED <<now, location, startTime, tracks, events, type, data,
                   backendStatus, alerts, console, lastNav, sendCalls, ticks>>

NavigateAfterTracks ==
    /\ pc = "run"
    /\ \A i \in 1..Len(tracks) : tracks[i].status # "pending"
    /\ \E newPath \in Paths : onNavigationChange(newPath)
    /\ UNCHANGED <<now, pc, events, type, data, backendStatus, probe, alerts,
                   console, sendCalls, ticks>>

\* The router reports a new location (a click on a Link): the effect runs again.
Navigate ==
    /\ pc = "run"
    /\ \E newPath \in Paths : onNavigationChange(newPath)
    /\ UNCHANGED <<now, pc, events, type, data, backendStatus, probe, alerts,
                   console, sendCalls, ticks>>

-----------------------------------------------------------------------------
(* The two inputs, lines 165-178 *)

SetType ==
    /\ pc = "run"
    /\ \E v \in Strings : type' = v
    /\ UNCHANGED <<now, pc, location, startTime, currentPage, tracks, events, data,
                   backendStatus, probe, alerts, console, lastNav, sendCalls, ticks>>

SetData ==
    /\ pc = "run"
    /\ \E v \in DataStrings : data' = v
    /\ UNCHANGED <<now, pc, location, startTime, currentPage, tracks, events, type,
                   backendStatus, probe, alerts, console, lastNav, sendCalls, ticks>>

-----------------------------------------------------------------------------
(* sendEvent, lines 83-104 *)

ValidUnlessOffline(t) == Trim(t) # <<>> /\ backendStatus # "offline"

\* line 84: type.trim() is truthy
Valid(t) == Trim(t) # <<>>

\* lines 86-96: the POST /events; of its body the model keeps the type, and
\* it records which call of sendEvent issued it ("call", history)
EventsRequest == [type |-> type, call |-> sendCalls + 1, status |-> "pending"]

\* line 84: the validation alert, and nothing else
sendEventRejected ==
    /\ ~Valid(type)
    /\ alerts' = Append(alerts, "validation")
    /\ UNCHANGED <<events>>

\* lines 85-96: up to the await
sendEventIssued ==
    /\ Valid(type)
    /\ events' = Append(events, EventsRequest)
    /\ UNCHANGED <<alerts>>

\* lines 83-96: one call, up to the return of line 84 or the await of line 86
sendEventCall ==
    /\ pc = "run"
    /\ (sendEventRejected \/ sendEventIssued)
    /\ sendCalls' = sendCalls + 1
    /\ UNCHANGED <<now, pc, location, startTime, currentPage, tracks, type, data,
                   backendStatus, probe, console, lastNav, ticks>>

sendEvent ==
    /\ sendCalls < MaxSend
    /\ sendEventCall

\* a click on Send while an earlier call may still be awaiting its response
sendEventOverlapping ==
    /\ sendCalls < MaxOverlap
    /\ sendEventCall

-----------------------------------------------------------------------------
(* The fetch promises settle: fetch resolves on any HTTP response, 2xx or
   not, and rejects on a network error.  A promise settles in a later task,
   so never between the two mount effects. *)

Pending(reqs) == {i \in 1..Len(reqs) : reqs[i].status = "pending"}

SettledReissued(reqs, i, outcome) ==
    IF outcome = "neterr"
    THEN Append([reqs EXCEPT ![i].status = outcome], reqs[i])
    ELSE [reqs EXCEPT ![i].status = outcome]

Settled(reqs, i, outcome) == [reqs EXCEPT ![i].status = outcome]

Response(ok) == IF ok THEN "ok" ELSE "http"

Logged(k) == [console EXCEPT ![k] = @ + 1]

ResumedKeepsEdits(ok) ==
    <<IF Valid(type) THEN <<>> ELSE type, <<>>, Append(alerts, "success"), console>>

\* lines 97-99: what follows the await when fetch resolves; res.ok is not read
Resumed(ok) == <<<<>>, <<>>, Append(alerts, "success"), console>>

\* lines 100-103: the catch block
Caught == <<type, data, Append(alerts, "failure"), Logged("events")>>

EventsResolve ==
    \E i \in Pending(events), ok \in BOOLEAN :
        LET r == Resumed(ok)
        IN  /\ events' = Settled(events, i, Response(ok))
            /\ type' = r[1]
            /\ data' = r[2]
            /\ alerts' = r[3]
            /\ console' = r[4]
            /\ UNCHANGED <<now, pc, location, startTime, currentPage, tracks,
                           backendStatus, probe, lastNav, sendCalls, ticks>>

EventsReject ==
    \E i \in Pending(events) :
        LET r == Caught
        IN  /\ events' = Settled(events, i, "neterr")
            /\ type' = r[1]
            /\ data' = r[2]
            /\ alerts' = r[3]
            /\ console' = r[4]
            /\ UNCHANGED <<now, pc, location, startTime, currentPage, tracks,
                           backendStatus, probe, lastNav, sendCalls, ticks>>

\* lines 32-36: the promise has a .catch only, so a response runs no handler
TrackResolved(ok) == console

\* the fetch of line 32 resolves
TrackResolve ==
    \E i \in Pending(tracks), ok \in BOOLEAN :
        /\ pc = "run"
        /\ tracks' = Settled(tracks, i, Response(ok))
        /\ console' = TrackResolved(ok)
        /\ UNCHANGED <<now, pc, location, startTime, currentPage, events, type, data,
                       backendStatus, probe, alerts, lastNav, sendCalls, ticks>>

\* line 36: .catch logs the error
TrackReject ==
    \E i \in Pending(tracks) :
        /\ pc = "run"
        /\ tracks' = Settled(tracks, i, "neterr")
        /\ console' = Logged("track")
        /\ UNCHANGED <<now, pc, location, startTime, currentPage, events, type, data,
                       backendStatus, probe, alerts, lastNav, sendCalls, ticks>>

ProbeStatusIgnoresOk(ok) == "online"

\* lines 71-75: res.ok decides between "online" and "offline"
ProbeStatus(ok) == IF ok THEN "online" ELSE "offline"

\* lines 70-75: the probe's fetch resolves
ProbeResolve ==
    /\ probe = "pending"
    /\ \E ok \in BOOLEAN :
          /\ backendStatus' = ProbeStatus(ok)
          /\ probe' = Response(ok)
    /\ UNCHANGED <<now, pc, location, startTime, currentPage, tracks, events, type,
                   data, alerts, console, lastNav, sendCalls, ticks>>

\* lines 76-78: the probe's fetch rejects
ProbeReject ==
    /\ probe = "pending"
    /\ backendStatus' = "offline"
    /\ probe' = "neterr"
    /\ UNCHANGED <<now, pc, location, startTime, currentPage, tracks, events, type,
                   data, alerts, console, lastNav, sendCalls, ticks>>

-----------------------------------------------------------------------------
(* Steps, as the properties below name them *)

\* this step is a run of the hook's effect (one that changes nothing stutters)
NavStep == lastNav' # lastNav

\* this step issues a POST /track
EmitStep == Len(tracks') = Len(tracks) + 1

Emitted == tracks'[Len(tracks')]

\* this step is a call of sendEvent
SendStep == sendCalls' # sendCalls

\* this step settles a pending POST /events, respectively /track, with outcome o
EventsSettleStep(o) ==
    \E i \in 1..Len(events) : events[i].status = "pending" /\ events'[i].status = o

TrackSettleStep(o) ==
    \E i \in 1..Len(tracks) : tracks[i].status = "pending" /\ tracks'[i].status = o

\* empty or whitespace-only
IsBlank(t) == \A i \in 1..Len(t) : t[i] = " "

\* the POST /track the latest run of the hook's effect issued, if any
LastEmitted == {i \in 1..Len(tracks) : i > lastNav.before /\ lastNav # NoNav}

Next ==
    \/ Tick
    \/ MountTimerEffect
    \/ AppMountEffect
    \/ Navigate
    \/ SetType
    \/ SetData
    \/ sendEvent
    \/ EventsResolve
    \/ EventsReject
    \/ TrackResolve
    \/ TrackReject
    \/ ProbeResolve
    \/ ProbeReject

Spec == Init /\ [][Next]_vars

(* The page timer on its own: the clock, the effect of usePageTimer at mount
   and at every navigation, and the POST /track requests it issues.  The App
   component is mounted and then left alone. *)
NextTimer ==
    \/ Tick
    \/ MountTimerEffect
    \/ AppMountEffect
    \/ Navigate
    \/ TrackResolve
    \/ TrackReject

SpecTimer == Init /\ [][NextTimer]_vars

(* The App component on its own: its mount effect with the probe, the two
   inputs and sendEvent, with room for two calls of sendEvent in flight at a
   time.  The page is mounted and the user stays on it. *)
NextApp ==
    \/ MountTimerEffect
    \/ AppMountEffect
    \/ SetType
    \/ SetData
    \/ sendEventOverlapping
    \/ EventsResolve
    \/ EventsReject
    \/ ProbeResolve
    \/ ProbeReject

SpecApp == Init /\ [][NextApp]_vars

-----------------------------------------------------------------------------
(* C1: every emitted TimingRecord has timeSpent (ms) equal to the time of the
   callback that leaves the page minus the time stored by the callback that
   made that page active: an earlier callback ran, for the page of the
   record, and the record counts from that callback's time. *)
C1_OwnEntryTimestamp ==
    [][EmitStep =>
          /\ lastNav # NoNav
          /\ Emitted.page = lastNav.to
          /\ Emitted.timeSpent = now - lastNav.at]_vars

(* C1 restricted to the callbacks after the one at mount, which it holds of. *)
C1_AfterMount ==
    [][(EmitStep /\ pc = "run") =>
          /\ lastNav # NoNav
          /\ Emitted.page = lastNav.to
          /\ Emitted.timeSpent = now - lastNav.at]_vars

(* C2, as first stated: the page of an emitted record is the path being left
   (sessionStorage's currentPage read at the start of the callback), never the
   path being entered.  Stated here of the navigations after mount. *)
C2_Original ==
    [][(EmitStep /\ pc = "run") =>
          (Emitted.page = currentPage /\ Emitted.page # location')]_vars

(* C2, amended: the page of an emitted record is sessionStorage's currentPage
   read at the start of the callback; it differs from the path being entered
   whenever that path differs from the stored one. *)
C2_PageIsPathLeft ==
    \A i \in LastEmitted :
        /\ tracks[i].page = lastNav.from
        /\ (lastNav.to # lastNav.from => tracks[i].page # lastNav.to)

C2_Witness ==
    /\ ~lastNav.mount
    /\ lastNav.from = "/" /\ lastNav.to = "/about"
    /\ \E i \in LastEmitted : tracks[i].page = "/"

(* C3: no POST /track is ever issued whose page is "/analytics". *)
C3_NoTrackForExcluded ==
    \A i \in 1..Len(tracks) : tracks[i].page # ExcludedPage

C3_Witness ==
    /\ ~lastNav.mount
    /\ lastNav.from = ExcludedPage /\ lastNav.to # ExcludedPage
    /\ lastNav.dwell = 5000
    /\ LastEmitted = {}

(* C4: a callback entering "/analytics" from a page that is neither absent
   nor "/analytics", after more than 0.5 s, issues the record of the page it
   leaves (for "/" after 5 s: page "/", timeSpent 5), and a callback leaving
   "/analytics" issues none (so the two navigations of the scenario issue
   exactly one request). *)
C4_EnteringExcludedStillEmits ==
    /\ (/\ lastNav.to = ExcludedPage
        /\ lastNav.from \notin {NoPage, ExcludedPage}
        /\ lastNav.dwell > Threshold)
       => (/\ Cardinality(LastEmitted) = 1
           /\ \A i \in LastEmitted :
                 /\ tracks[i].page = lastNav.from
                 /\ tracks[i].timeSpent = lastNav.dwell)
    /\ lastNav.from = ExcludedPage => LastEmitted = {}

\* the scenario: "/" -> "/analytics" after 5 s, "/analytics" -> "/about" after 3 s
C4_Witness ==
    /\ Len(tracks) = 1
    /\ tracks[1].page = "/" /\ tracks[1].timeSpent = 5000 /\ tracks[1].at = 5000
    /\ lastNav = [from |-> ExcludedPage, to |-> "/about", at |-> 8000,
                  dwell |-> 3000, before |-> 1, mount |-> FALSE]

(* C5: every issued TimingRecord has timeSpent > 0.5 s, and a callback whose
   dwell time is at most 0.5 s issues nothing. *)
C5_AboveThreshold ==
    /\ \A i \in 1..Len(tracks) : tracks[i].timeSpent > Threshold
    /\ (lastNav # NoNav /\ lastNav.dwell <= Threshold) => LastEmitted = {}

C5_Witness ==
    /\ ~lastNav.mount
    /\ lastNav.from = "/" /\ lastNav.dwell = Threshold
    /\ LastEmitted = {}

(* C6: after every run of the callback, sessionStorage's currentPage is its
   path and startTime is its time, whether or not it issued a record and
   whatever becomes of the requests. *)
C6_StateAfterCallback ==
    lastNav # NoNav => (currentPage = lastNav.to /\ startTime = lastNav.at)

C6_Witness ==
    /\ ~lastNav.mount
    /\ lastNav.from = ExcludedPage /\ lastNav.to = "/about" /\ lastNav.dwell = 3000
    /\ LastEmitted = {}
    /\ \E i \in 1..Len(tracks) : tracks[i].status = "neterr"
    /\ currentPage = "/about" /\ startTime = now

(* C7, as first stated: a callback for the path that is already the current
   page issues no record and leaves startTime and currentPage as they were. *)
C7_Original ==
    [][(NavStep /\ lastNav # NoNav /\ location' = currentPage) =>
          (tracks' = tracks /\ startTime' = startTime
           /\ currentPage' = currentPage)]_vars

(* C7, amended: a callback for the path that is already the current page
   leaves currentPage as it was, sets startTime to its own time, and issues a
   record for that path exactly when more than 0.5 s have passed since
   startTime and the path is not "/analytics". *)
C7_RepeatedPath ==
    (lastNav # NoNav /\ ~lastNav.mount /\ lastNav.to = lastNav.from) =>
        /\ currentPage = lastNav.from
        /\ startTime = lastNav.at
        /\ IF lastNav.from # ExcludedPage /\ lastNav.dwell > Threshold
           THEN /\ Cardinality(LastEmitted) = 1
                /\ \A i \in LastEmitted :
                      /\ tracks[i].page = lastNav.from
                      /\ tracks[i].timeSpent = lastNav.dwell
           ELSE LastEmitted = {}

C7_Witness ==
    /\ ~lastNav.mount
    /\ lastNav.from = "/about" /\ lastNav.to = "/about" /\ lastNav.dwell = 3000
    /\ \E i \in LastEmitted : tracks[i].page = "/about" /\ tracks[i].timeSpent = 3000

(* C8: sendEvent called while the type field is empty or whitespace-only
   issues no request, raises the validation alert and leaves both fields as
   they are; no POST /events ever carries such a type. *)
C8_BlankTypeRejected ==
    [][(SendStep /\ IsBlank(type)) =>
          /\ events' = events /\ tracks' = tracks
          /\ alerts' = Append(alerts, "validation")
          /\ type' = type /\ data' = data]_vars

C8_Witness ==
    /\ sendCalls = 1
    /\ type = <<" ", " ">> /\ data = <<"d">>
    /\ alerts = <<"validation">>
    /\ events = <<>>

(* C9: when a POST /events succeeds (a 2xx response) both fields are cleared
   and the success alert is shown; when it fails (a network error, or a
   response that is not 2xx) both fields keep their values and the failure
   alert is shown. *)
C9_ClearedOrPreserved ==
    [][/\ EventsSettleStep("ok") =>
            (type' = <<>> /\ data' = <<>> /\ alerts' = Append(alerts, "success"))
       /\ (EventsSettleStep("neterr") \/ EventsSettleStep("http")) =>
            (type' = type /\ data' = data /\ alerts' = Append(alerts, "failure"))]_vars

(* C9 restricted to a 2xx response and a network error, which it holds of. *)
C9_ResolvedOkOrRejected ==
    [][/\ EventsSettleStep("ok") =>
            (type' = <<>> /\ data' = <<>> /\ alerts' = Append(alerts, "success"))
       /\ EventsSettleStep("neterr") =>
            (type' = type /\ data' = data /\ alerts' = Append(alerts, "failure"))]_vars

(* C10: a response that is not 2xx is handled as a network error is: for
   POST /events the failure alert with both fields kept, for POST /track a
   logged error. *)
C10_Non2xxIsFailure ==
    [][/\ EventsSettleStep("http") =>
            (/\ alerts' = Append(alerts, "failure")
             /\ type' = type /\ data' = data
             /\ console'.events = console.events + 1)
       /\ TrackSettleStep("http") => console'.track = console.track + 1]_vars

(* C11: backendStatus starts as "checking" and is decided by the one GET of
   checkBackend, which the mount effect of App issues: while the GET is not
   issued or pending the status is "checking", after a 2xx response it is
   "online", after any other response or a network error it is "offline";
   the GET is issued once and settles once, and a status other than
   "checking" never changes again. *)
C11_ProbeDecidesOnce ==
    /\ [](/\ backendStatus = CASE probe \in {"none", "pending"} -> "checking"
                               [] probe = "ok" -> "online"
                               [] OTHER -> "offline"
          /\ (pc = "run" => probe # "none"))
    /\ [][probe' # probe =>
             \/ (probe = "none" /\ probe' = "pending" /\ pc = "appEffect")
             \/ (probe = "pending" /\ probe' \in {"ok", "http", "neterr"})]_vars
    /\ [][backendStatus # "checking" => backendStatus' = backendStatus]_vars

\* a response that is not 2xx has set "offline", and the application went on
C11_Witness ==
    /\ probe = "http" /\ backendStatus = "offline"
    /\ Len(events) = 1 /\ events[1].status = "ok"

(* C12: a run of the hook's effect issues at most one POST /track, and
   writes currentPage and startTime once, to its path and its time; a call of
   sendEvent issues one POST /events when the type is valid and none when it
   is blank; the GET of the probe is issued by the mount effect of App only.
   Nothing else issues a request: a step that settles a request, as a
   failure or not, leaves the number of requests as it is and no request
   pending that was not.  So the requests issued are one for each emitting
   callback, one for each valid call of sendEvent, and the probe. *)
C12_OneRequestPerCall ==
    [][/\ NavStep =>
            /\ Len(tracks') \in {Len(tracks), Len(tracks) + 1}
            /\ SubSeq(tracks', 1, Len(tracks)) = tracks
            /\ currentPage' = location' /\ startTime' = now
            /\ events' = events /\ probe' = probe
       /\ SendStep =>
            /\ Len(events') = Len(events) + (IF IsBlank(type) THEN 0 ELSE 1)
            /\ SubSeq(events', 1, Len(events)) = events
            /\ tracks' = tracks /\ probe' = probe
       /\ Len(tracks') # Len(tracks) => NavStep
       /\ Len(events') # Len(events) => SendStep
       /\ probe' = "pending" /\ probe # "pending" => pc = "appEffect" /\ probe = "none"
       /\ (~NavStep /\ ~SendStep) =>
            /\ Pending(tracks') \subseteq Pending(tracks)
            /\ Pending(events') \subseteq Pending(events)]_vars

\* a POST /track and a POST /events have failed, the probe too, and a later
\* callback has run: three requests in all
C12_Witness ==
    /\ Len(tracks) = 1 /\ tracks[1].status = "neterr"
    /\ Len(events) = 1 /\ events[1].status = "neterr"
    /\ probe = "neterr"
    /\ ~lastNav.mount /\ lastNav.before = 1 /\ lastNav.at > tracks[1].at

(* C13: once the application is mounted, a run of the hook's effect is
   possible for every path, whatever the number of POST /track in flight; it
   writes currentPage and startTime and leaves every request issued before it
   as it was, the pending ones pending.  The outcome of a request changes
   only from pending, and never in a step that runs the effect. *)
C13_NavigationNeverWaitsNorCancels ==
    /\ [](pc = "run" => \A p \in Paths : ENABLED (Navigate /\ location' = p))
    /\ [][NavStep =>
             /\ SubSeq(tracks', 1, Len(tracks)) = tracks
             /\ currentPage' = location' /\ startTime' = now]_vars
    /\ [][\A i \in 1..Len(tracks) :
             tracks'[i].status # tracks[i].status =>
                 (tracks[i].status = "pending" /\ ~NavStep)]_vars

\* two POST /track are in flight and a further callback has run
C13_Witness ==
    /\ Len(tracks) = 2
    /\ tracks[1].status = "pending" /\ tracks[2].status = "pending"
    /\ ~lastNav.mount /\ lastNav.before = 2
    /\ currentPage = lastNav.to /\ startTime = lastNav.at

(* C14: a step that settles a POST /track, with a 2xx response, another
   response or a network error, leaves currentPage, startTime, the location
   and the records issued as they are, and the application running (a
   network error is logged to the console, no more).  What a run of the
   hook's effect issues is decided by currentPage, startTime and its own time
   alone, so it is the same whatever became of the earlier requests. *)
C14_TrackOutcomeUnobserved ==
    [][/\ (\E o \in {"ok", "http", "neterr"} : TrackSettleStep(o)) =>
            /\ UNCHANGED <<currentPage, startTime, location, lastNav, pc>>
            /\ Len(tracks') = Len(tracks)
            /\ \A i \in 1..Len(tracks) :
                  /\ tracks'[i].page = tracks[i].page
                  /\ tracks'[i].timeSpent = tracks[i].timeSpent
       /\ TrackSettleStep("neterr") => console'.track = console.track + 1
       /\ NavStep =>
            tracks' = IF /\ currentPage \notin {NoPage, ExcludedPage}
                         /\ now - startTime > Threshold
                      THEN Append(tracks, [page |-> currentPage,
                                           timeSpent |-> now - startTime,
                                           at |-> now, status |-> "pending"])
                      ELSE tracks]_vars

\* a POST /track has failed and a later callback has issued the next record
C14_Witness ==
    /\ Len(tracks) = 2
    /\ tracks[1].status = "neterr" /\ console.track = 1
    /\ ~lastNav.mount /\ lastNav.before = 1
    /\ tracks[2].page = lastNav.from /\ tracks[2].timeSpent = lastNav.dwell
    /\ tracks[2].at > tracks[1].at

(* C15: backendStatus gates nothing.  Once the application is mounted a run
   of the hook's effect and a call of sendEvent are possible in every
   status, and what they do is decided without it: the effect issues a
   record exactly when currentPage is present and not "/analytics" and more
   than 0.5 s have passed, and writes currentPage and startTime; sendEvent
   issues a POST /events with the type exactly when the type is not blank,
   and the validation alert otherwise.  Neither changes the status. *)
C15_StatusGatesNothing ==
    /\ [](pc = "run" => (ENABLED Navigate /\ ENABLED sendEventCall))
    /\ [][/\ NavStep =>
               /\ Len(tracks') = Len(tracks)
                      + (IF /\ currentPage \notin {NoPage, ExcludedPage}
                            /\ now - startTime > Threshold
                         THEN 1 ELSE 0)
               /\ currentPage' = location' /\ startTime' = now
               /\ backendStatus' = backendStatus
          /\ SendStep =>
               /\ IF IsBlank(type)
                  THEN events' = events /\ alerts' = Append(alerts, "validation")
                  ELSE /\ events' = Append(events, [type |-> type, call |-> sendCalls + 1,
                                                      status |-> "pending"])
                       /\ alerts' = alerts
               /\ backendStatus' = backendStatus]_vars

\* the status is "offline" while a POST /track and a POST /events are in flight
C15_Witness ==
    /\ backendStatus = "offline"
    /\ Len(events) = 1 /\ events[1].status = "pending"
    /\ ~lastNav.mount /\ \E i \in LastEmitted : tracks[i].status = "pending"

(* C16: the POST /track requests are issued in the order of the callbacks
   that leave the pages: each is issued later than the ones before it in the
   sequence, and the record of the latest callback is the last.  (That they
   may complete in another order is what C16_Witness shows.) *)
C16_IssuedInNavigationOrder ==
    /\ \A i, j \in 1..Len(tracks) : i < j => tracks[i].at < tracks[j].at
    /\ \A i \in LastEmitted : i = Len(tracks) /\ tracks[i].at = lastNav.at

\* the record of "/about", left later, has its response while the record of
\* "/", left earlier, is still in flight
C16_Witness ==
    /\ Len(tracks) = 2
    /\ tracks[1].page = "/" /\ tracks[1].status = "pending"
    /\ tracks[2].page = "/about" /\ tracks[2].status = "ok"
    /\ tracks[1].at < tracks[2].at

(* C17: the run of the hook's effect at mount, on a first load or on a
   reload in the same tab, issues no POST /track, whatever time has passed
   since the first render. *)
C17_FirstCallbackEmitsNothing ==
    (lastNav # NoNav /\ lastNav.mount) => LastEmitted = {}

(* C17 restricted to a first load (currentPage absent) and to a mount effect
   that runs within 0.5 s of the first render, which it holds of. *)
C17_FirstLoadOrPromptMount ==
    (lastNav # NoNav /\ lastNav.mount
        /\ (lastNav.from = NoPage \/ lastNav.dwell <= Threshold))
    => LastEmitted = {}

(* C18: a step in which a POST /events gets its 2xx response leaves both
   fields empty, whatever they held before it: what the user typed, and what
   a further call of sendEvent did, while the request was in flight makes no
   difference. *)
C18_SuccessClearsLaterEdits ==
    [][EventsSettleStep("ok") => (type' = <<>> /\ data' = <<>>)]_vars

\* the first call of sendEvent issued a request; while it was in flight the
\* type field was edited to whitespace and Send was clicked again (the
\* validation alert); then the response came and both fields are empty
C18_Witness ==
    /\ sendCalls = 2
    /\ Len(events) = 1 /\ events[1].call = 1 /\ events[1].status = "ok"
    /\ alerts = <<"validation", "success">>
    /\ type = <<>> /\ data = <<>>

\* two calls of sendEvent were in flight together when the first response
\* came, and both fields are empty
C18_Overlap ==
    /\ Len(events) = 2 /\ events[1].status = "ok" /\ events[2].status = "pending"
    /\ alerts = <<"success">>
    /\ type = <<>> /\ data = <<>>

====
